---- MODULE Spec2Model ----
(***************************************************************************)
(* Model of src/myanmar_food_scraper.py (class MyanmarFoodScraper).        *)
(*                                                                         *)
(* Strings are modelled as sequences of tokens.  A token is either one of  *)
(* the separator characters the code looks at ("/", ".", "?", "#", "://",  *)
(* "[", "]") or a maximal run of other characters ("photo", "PNG", ...).   *)
(* Every string operation of the source (startswith, urlparse, splitext,   *)
(* lower, "in") is modelled on that representation.                        *)
(***************************************************************************)
EXTENDS Integers, Sequences, FiniteSets, TLC

(***************************************************************************)
(* Bounds of the model.                                                    *)
(***************************************************************************)
\* Number of catalog entries iterated (the real catalog has 20 entries).
NumFoods == 2
\* Largest number of <img> elements the results page holds in a run.
MaxImgs == 2
\* Largest value of images_per_food tried.
MaxPer == 2
\* Longest URL path (in tokens) given to the extension derivation.
MaxPathLen == 4
\* Longest <img> element list given to the URL filter and deduplication.
MaxSeqLen == 3

(***************************************************************************)
(* Program constants.                                                      *)
(***************************************************************************)
\* scroll_count in get_image_urls.
scroll_count == 15

Min(a, b) == IF a < b THEN a ELSE b

(***************************************************************************)
(* Strings.                                                                *)
(***************************************************************************)
\* str.lower() on one token.
LowerTok(t) ==
  CASE t = "PNG" -> "png"
    [] t = "JPG" -> "jpg"
    [] t = "Png" -> "png"
    [] t = "IMAGE" -> "image"
    [] t = "Image" -> "image"
    [] t = "HTML" -> "html"
    [] OTHER -> t

\* str.lower() on a string.
Lower(s) == [k \in 1..Len(s) |-> LowerTok(s[k])]

\* Index of the first token of s that lies in set, Len(s)+1 when none does.
RECURSIVE FindFirst(_, _, _)
FindFirst(s, set, k) ==
  IF k > Len(s) THEN Len(s) + 1
  ELSE IF s[k] \in set THEN k
  ELSE FindFirst(s, set, k + 1)

\* str.rfind on one separator: index of the last token equal to c, 0 when none.
RECURSIVE RFind(_, _, _)
RFind(s, c, k) ==
  IF k = 0 THEN 0
  ELSE IF s[k] = c THEN k
  ELSE RFind(s, c, k - 1)

\* url_to_use.startswith("http")
StartsWithHttp(u) == Len(u) > 0 /\ u[1] \in {"http", "https"}

\* url_to_use.startswith("data:")
StartsWithData(u) == Len(u) > 0 /\ u[1] = "data:"

(***************************************************************************)
(* urlparse(img_url): raises ValueError on an unbalanced bracket in the    *)
(* network location, otherwise .path is what follows the network location  *)
(* up to the query or fragment.                                            *)
(***************************************************************************)
AfterScheme(u) ==
  IF Len(u) >= 2 /\ u[2] = "://" THEN SubSeq(u, 3, Len(u)) ELSE <<>>

Netloc(u) ==
  LET r == AfterScheme(u)
  IN  SubSeq(r, 1, FindFirst(r, {"/", "?", "#"}, 1) - 1)

UrlparseRaises(u) ==
  LET n == Netloc(u)
      has(c) == \E k \in 1..Len(n) : n[k] = c
  IN  (has("[") /\ ~has("]")) \/ (has("]") /\ ~has("["))

UrlPath(u) ==
  LET r == AfterScheme(u)
      a == FindFirst(r, {"/", "?", "#"}, 1)
      rest == SubSeq(r, a, Len(r))
  IN  SubSeq(rest, 1, FindFirst(rest, {"?", "#"}, 1) - 1)

(***************************************************************************)
(* os.path.splitext(p)[1]: the suffix from the last dot of the last path   *)
(* component, unless only dots precede it in that component.               *)
(***************************************************************************)
RECURSIVE HasNonDot(_, _, _)
HasNonDot(p, from, to) ==
  IF from >= to THEN FALSE
  ELSE IF p[from] # "." THEN TRUE
  ELSE HasNonDot(p, from + 1, to)

SplitextExt(p) ==
  LET sepIndex == RFind(p, "/", Len(p))
      dotIndex == RFind(p, ".", Len(p))
  IN  IF dotIndex > sepIndex /\ HasNonDot(p, sepIndex + 1, dotIndex)
      THEN SubSeq(p, dotIndex, Len(p))
      ELSE <<>>

\* The allow-list of scrape_food_images.
AllowedExtensions ==
  { <<".", "jpg">>, <<".", "jpeg">>, <<".", "png">>, <<".", "webp">> }

DefaultExtension == <<".", "jpg">>

\* file_extension not in ['.jpg', '.jpeg', '.png', '.webp'], negated
ExtAllowed(e) == e \in AllowedExtensions

\* file_extension of scrape_food_images for a URL urlparse accepts.
FileExtension(u) ==
  LET e == SplitextExt(UrlPath(u))
  IN  IF e = <<>> \/ ~ExtAllowed(e) THEN DefaultExtension ELSE e

(***************************************************************************)
(* get_image_urls: filter and deduplicate.                                 *)
(***************************************************************************)
\* An <img> element: its src and data-src attributes, <<>> when absent.
Img(src, data_src) == [src |-> src, data_src |-> data_src]

\* url_to_use = src or data_src
UrlToUse(img) == IF img.src # <<>> THEN img.src ELSE img.data_src

KeepsUrl(u) == u # <<>> /\ StartsWithHttp(u) /\ ~StartsWithData(u)

RECURSIVE FilterUrls(_)
FilterUrls(elems) ==
  IF elems = <<>> THEN <<>>
  ELSE LET u == UrlToUse(Head(elems))
       IN  (IF KeepsUrl(u) THEN <<u>> ELSE <<>>) \o FilterUrls(Tail(elems))

InSeq(x, s) == \E k \in 1..Len(s) : s[k] = x

\* list(dict.fromkeys(image_urls))
RECURSIVE DedupFrom(_, _)
DedupFrom(s, acc) ==
  IF s = <<>> THEN acc
  ELSE DedupFrom(Tail(s), IF InSeq(Head(s), acc) THEN acc ELSE Append(acc, Head(s)))

DedupKeepAll(s) == s
Dedup(s) == DedupFrom(s, <<>>)

ImageUrlsOf(elems) == Dedup(FilterUrls(elems))

(***************************************************************************)
(* download_image: the content-type test.                                  *)
(***************************************************************************)
IsImageAlways(ct) == TRUE
\* 'image' in content_type.lower()
IsImage(ct) == InSeq("image", Lower(ct))

(***************************************************************************)
(* Inputs of the run: what the results page and the image hosts hold.      *)
(***************************************************************************)
U_PNG == <<"http", "://", "h", "/", "photo", ".", "PNG", "?", "x">>
U_png == <<"https", "://", "h", "/", "pic", ".", "png">>
U_none == <<"http", "://", "h", "/", "img">>
U_data == <<"data:", "image/png;base64">>
U_bad == <<"http", "://", "[", "h", "/", "a", ".", "png">>

\* The <img> elements a results page may hold.
ElemPool ==
  { Img(U_PNG, <<>>), Img(<<>>, U_png), Img(U_data, U_none), Img(U_bad, <<>>) }

RECURSIVE SeqsUpTo(_, _)
SeqsUpTo(S, n) ==
  IF n = 0 THEN { <<>> }
  ELSE LET shorter == SeqsUpTo(S, n - 1)
       IN  shorter \cup { Append(s, x) : s \in shorter, x \in S }

\* The content-type headers an image host may send, <<>> when it sends none.
CTypes ==
  { <<"image", "/", "png">>, <<"IMAGE", "/", "png">>, <<"text", "/", "html">>, <<>> }

Statuses == {200, 404}

Responses == [status : Statuses, ctype : CTypes]

NoResponse == [status |-> 0, ctype |-> <<>>]

\* response.raise_for_status()
RaisesForStatus(status) == status >= 400 /\ status < 600

(***************************************************************************)
(* State.                                                                  *)
(***************************************************************************)
VARIABLES
  mode,             \* "none", "all" (scrape_all_foods), "single" (scrape_single_food)
  images_per_food,  \* self.images_per_food
  pc,               \* position of the run
  fi,               \* 1-based catalog index of the term being processed
  driver,           \* self.driver: "None", "open", "quit"
  opens,            \* number of browser launches that succeeded
  quits,            \* number of driver.quit() calls
  folders,          \* terms whose folder create_folder has made
  disk,             \* files under the base folder: <<term, n, ext>> -> content
  scroll_i,         \* iterations of the scroll loop started
  image_urls,       \* image_urls of scrape_food_images
  i,                \* iterations of the download loop started
  downloaded_count, \* downloaded_count of scrape_food_images
  attempted,        \* URLs the download loop has taken, in order
  response,         \* the response requests.get returned for the current URL
  ret,              \* what download_image returned in the latest step, else "None"
  raised,           \* the exception raised in the latest step, if any
  ki,               \* the KeyboardInterrupt delivered in the latest step, if any
  exitKind,         \* how the try block was left: "none", "normal", or the kind caught
  pending,          \* exception passing through the finally block
  escaped,          \* exception that left the run
  started,          \* terms whose loop body was entered
  completed,        \* terms whose completion summary was logged
  emptyTerms,       \* terms whose URL list came back empty
  fn_pc, fn_url, fn_ext, fn_elems, fn_urls   \* the pure functions applied on their own

runVars ==
  << mode, images_per_food, pc, fi, driver, opens, quits, folders, disk, scroll_i,
     image_urls, i, downloaded_count, attempted, response, ret, raised, ki,
     exitKind, pending, escaped, started, completed, emptyTerms >>

fnVars == << fn_pc, fn_url, fn_ext, fn_elems, fn_urls >>

vars == << runVars, fnVars >>

NoExc == [kind |-> "none", at |-> "none", food |-> 0]

NoKi == [at |-> "none", food |-> 0]

\* A file a previous run left behind.
OldName == <<1, 1, DefaultExtension>>

OldFile == [content |-> <<>>, full |-> TRUE]

EmptyDisk == [n \in {} |-> OldFile]

Put(d, name, file) ==
  [n \in DOMAIN d \cup {name} |-> IF n = name THEN file ELSE d[n]]

\* MyanmarFoodScraper.__init__
InitRun ==
  /\ mode = "none"
  /\ images_per_food \in 0..MaxPer
  /\ pc = "idle"
  /\ fi = 0
  /\ driver = "None"
  /\ opens = 0
  /\ quits = 0
  /\ folders = {}
  /\ disk \in { EmptyDisk, Put(EmptyDisk, OldName, OldFile) }
  /\ scroll_i = 0
  /\ image_urls = <<>>
  /\ i = 0
  /\ downloaded_count = 0
  /\ attempted = <<>>
  /\ response = NoResponse
  /\ ret = "None"
  /\ raised = NoExc
  /\ ki = NoKi
  /\ exitKind = "none"
  /\ pending = NoExc
  /\ escaped = NoExc
  /\ started = {}
  /\ completed = {}
  /\ emptyTerms = {}

FnIdle ==
  /\ fn_pc = "off"
  /\ fn_url = <<>>
  /\ fn_ext = <<>>
  /\ fn_elems = <<>>
  /\ fn_urls = <<>>

Init == InitRun /\ FnIdle

(***************************************************************************)
(* Control flow helpers.                                                   *)
(***************************************************************************)
\* image_urls[:self.images_per_food]
Slice(urls, n) == SubSeq(urls, 1, Min(Len(urls), n))

\* The index used in file_name for iteration it of the download loop
\* (it = i + 1 of the enumerate) when count downloads have succeeded.
FileIndexBySuccess(it, count) == count + 1
FileIndex(it, count) == it

\* file_name = f"{food_name}_{i+1}{file_extension}" inside the term's folder.
FileName(food, it, count, url) == <<food, FileIndex(it, count), FileExtension(url)>>

\* Where the download loop goes after iteration it.
DlStopAtFailure(it, ok) ==
  IF ok /\ it < Len(Slice(image_urls, images_per_food)) THEN "dl_name" ELSE "summary"
DlNext(it, ok) ==
  IF it < Len(Slice(image_urls, images_per_food)) THEN "dl_name" ELSE "summary"

\* Where control goes when scrape_food_images returns.
AfterTerm ==
  IF mode = "all"
  THEN IF fi < NumFoods THEN "sleep" ELSE "loop"
  ELSE "finally"

\* Positions inside the try block of scrape_all_foods / scrape_single_food.
CollectPcs == {"navigate", "scroll", "show_more", "wait_imgs", "extract"}

DownloadPcs == {"dl_name", "dl_request", "dl_handle"}

TermPcs == {"create_folder", "urls_check", "summary"} \cup CollectPcs \cup DownloadPcs

InTryPcs == TermPcs \cup {"loop", "sleep"}

\* The bare "except:" around the "Show more results" lookup catches
\* everything raised at that position, KeyboardInterrupt included.
SwallowsNothing(p) == FALSE
Swallows(p) == p = "show_more"

\* The handlers of scrape_all_foods and of scrape_single_food.
Catches(m, kind) ==
  \/ kind = "Exception"
  \/ m = "all" /\ kind = "KeyboardInterrupt"

\* The step raised nothing, was not interrupted, returned no download result.
Quiet ==
  /\ raised' = NoExc
  /\ ki' = NoKi
  /\ ret' = "None"

ClearLocals ==
  /\ scroll_i' = 0
  /\ image_urls' = <<>>
  /\ i' = 0
  /\ downloaded_count' = 0
  /\ attempted' = <<>>
  /\ response' = NoResponse

\* Where control goes when an exception leaves the loop body: the try
\* statement encloses the whole loop, so to its handlers and the finally block.
HandlerResumes(kind) == IF kind = "KeyboardInterrupt" THEN "loop" ELSE "finally"
HandlerTarget(kind) == "finally"

\* An exception of the given kind leaves scrape_food_images at position pc.
Propagate(kind) ==
  /\ raised' = [kind |-> kind, at |-> pc, food |-> fi]
  /\ pc' = HandlerTarget(kind)
  /\ IF Catches(mode, kind)
     THEN exitKind' = kind /\ pending' = pending
     ELSE exitKind' = exitKind /\ pending' = [kind |-> kind, at |-> pc, food |-> fi]

(***************************************************************************)
(* scrape_all_foods and scrape_single_food up to the try block.            *)
(***************************************************************************)
\* os.makedirs(self.base_folder, exist_ok=True) of either entry point.
Enter(m, food) ==
  /\ pc = "idle"
  /\ mode' = m
  /\ fi' = food
  /\ \/ /\ pc' = "setup_driver"
        /\ UNCHANGED << raised, escaped >>
     \/ /\ pc' = "raised"
        /\ raised' = [kind |-> "OSError", at |-> "makedirs", food |-> 0]
        /\ escaped' = [kind |-> "OSError", at |-> "makedirs", food |-> 0]
  /\ UNCHANGED << images_per_food, driver, opens, quits, folders, disk, scroll_i,
                  image_urls, i, downloaded_count, attempted, response, ret, ki,
                  exitKind, pending, started, completed, emptyTerms >>

scrape_all_foods == Enter("all", 0)

scrape_single_food == \E food \in 1..NumFoods : Enter("single", food)

setup_driver ==
  /\ pc = "setup_driver"
  /\ \/ /\ driver' = "open"
        /\ opens' = opens + 1
        /\ pc' = IF mode = "all" THEN "loop" ELSE "create_folder"
        /\ started' = IF mode = "all" THEN started ELSE started \cup {fi}
        /\ UNCHANGED << raised, escaped >>
     \/ /\ pc' = "raised"
        /\ raised' = [kind |-> "LaunchError", at |-> "setup_driver", food |-> 0]
        /\ escaped' = [kind |-> "LaunchError", at |-> "setup_driver", food |-> 0]
        /\ UNCHANGED << driver, opens, started >>
  /\ UNCHANGED << mode, images_per_food, fi, quits, folders, disk, scroll_i,
                  image_urls, i, downloaded_count, attempted, response, ret, ki,
                  exitKind, pending, completed, emptyTerms >>

\* for i, food in enumerate(self.myanmar_foods, 1)
LoopNext ==
  /\ pc = "loop"
  /\ IF fi < NumFoods
     THEN /\ fi' = fi + 1
          /\ started' = started \cup {fi + 1}
          /\ pc' = "create_folder"
          /\ exitKind' = exitKind
     ELSE /\ pc' = "finally"
          /\ exitKind' = "normal"
          /\ UNCHANGED << fi, started >>
  /\ UNCHANGED << mode, images_per_food, driver, opens, quits, folders, disk,
                  scroll_i, image_urls, i, downloaded_count, attempted, response,
                  pending, escaped, completed, emptyTerms >>
  /\ Quiet

\* time.sleep(5) between two terms
Sleep ==
  /\ pc = "sleep"
  /\ pc' = "loop"
  /\ UNCHANGED << mode, images_per_food, fi, driver, opens, quits, folders, disk,
                  scroll_i, image_urls, i, downloaded_count, attempted, response,
                  exitKind, pending, escaped, started, completed, emptyTerms >>
  /\ Quiet

\* The finally block, skipping driver.quit().
FinallyNoQuit ==
  /\ pc = "finally"
  /\ pc' = IF pending = NoExc THEN "done" ELSE "raised"
  /\ escaped' = pending
  /\ exitKind' = IF exitKind = "none" /\ pending = NoExc THEN "normal" ELSE exitKind
  /\ UNCHANGED << mode, images_per_food, fi, driver, opens, quits, folders, disk,
                  scroll_i, image_urls, i, downloaded_count, attempted, response,
                  ret, raised, ki, pending, started, completed, emptyTerms >>

\* The finally block: driver.quit() when self.driver is set.
Finally ==
  /\ pc = "finally"
  /\ IF driver # "None"
     THEN driver' = "quit" /\ quits' = quits + 1
     ELSE UNCHANGED << driver, quits >>
  /\ pc' = IF pending = NoExc THEN "done" ELSE "raised"
  /\ escaped' = pending
  /\ exitKind' = IF exitKind = "none" /\ pending = NoExc THEN "normal" ELSE exitKind
  /\ UNCHANGED << mode, images_per_food, fi, opens, folders, disk, scroll_i,
                  image_urls, i, downloaded_count, attempted, response, ret, raised,
                  ki, pending, started, completed, emptyTerms >>

(***************************************************************************)
(* scrape_food_images and get_image_urls.                                  *)
(***************************************************************************)
\* folder_path = self.create_folder(food_name); an OSError is not caught here.
create_folder ==
  /\ pc = "create_folder"
  /\ \/ /\ folders' = folders \cup {fi}
        /\ pc' = "navigate"
        /\ raised' = NoExc
        /\ UNCHANGED << exitKind, pending >>
     \/ /\ Propagate("Exception")
        /\ UNCHANGED folders
  /\ UNCHANGED << mode, images_per_food, fi, driver, opens, quits, disk, scroll_i,
                  image_urls, i, downloaded_count, attempted, response, escaped,
                  started, completed, emptyTerms >>
  /\ ki' = NoKi
  /\ ret' = "None"

\* self.driver.get(url); time.sleep(3); entry of the scroll loop
Navigate ==
  /\ pc = "navigate"
  /\ scroll_i' = 0
  /\ pc' = IF scroll_count > 0 THEN "scroll" ELSE "wait_imgs"
  /\ UNCHANGED << mode, images_per_food, fi, driver, opens, quits, folders, disk,
                  image_urls, i, downloaded_count, attempted, response, exitKind,
                  pending, escaped, started, completed, emptyTerms >>
  /\ Quiet

\* window.scrollBy(0,1000); time.sleep(2)
Scroll ==
  /\ pc = "scroll"
  /\ scroll_i' = scroll_i + 1
  /\ pc' = "show_more"
  /\ UNCHANGED << mode, images_per_food, fi, driver, opens, quits, folders, disk,
                  image_urls, i, downloaded_count, attempted, response, exitKind,
                  pending, escaped, started, completed, emptyTerms >>
  /\ Quiet

\* Where the scroll loop goes after the "Show more results" lookup.
AfterShowMore == IF scroll_i < scroll_count THEN "scroll" ELSE "wait_imgs"

\* The "Show more results" lookup: clicked, not displayed, or not found (the
\* error is swallowed); the loop goes on in every case.
ShowMore ==
  /\ pc = "show_more"
  /\ pc' = AfterShowMore
  /\ UNCHANGED << mode, images_per_food, fi, driver, opens, quits, folders, disk,
                  scroll_i, image_urls, i, downloaded_count, attempted, response,
                  exitKind, pending, escaped, started, completed, emptyTerms >>
  /\ Quiet

\* WebDriverWait(...).until(presence_of_all_elements_located(img))
WaitImgs ==
  /\ pc = "wait_imgs"
  /\ pc' = "extract"
  /\ UNCHANGED << mode, images_per_food, fi, driver, opens, quits, folders, disk,
                  scroll_i, image_urls, i, downloaded_count, attempted, response,
                  exitKind, pending, escaped, started, completed, emptyTerms >>
  /\ Quiet

\* find_elements, the filter loop, the deduplication and the return.
Extract ==
  /\ pc = "extract"
  /\ \E elems \in SeqsUpTo(ElemPool, MaxImgs) : image_urls' = ImageUrlsOf(elems)
  /\ pc' = "urls_check"
  /\ UNCHANGED << mode, images_per_food, fi, driver, opens, quits, folders, disk,
                  scroll_i, i, downloaded_count, attempted, response, exitKind,
                  pending, escaped, started, completed, emptyTerms >>
  /\ Quiet

\* What get_image_urls returns from its "except Exception" handler.
ReturnOnErrorStale == <<U_png>>
ReturnOnError == <<>>

\* An error of the browser during navigation, scrolling, the wait or the
\* extraction: logged, get_image_urls returns [].
CollectFail ==
  /\ pc \in CollectPcs \ {"show_more"}
  /\ raised' = [kind |-> "Exception", at |-> pc, food |-> fi]
  /\ image_urls' = ReturnOnError
  /\ pc' = "urls_check"
  /\ UNCHANGED << mode, images_per_food, fi, driver, opens, quits, folders, disk,
                  scroll_i, i, downloaded_count, attempted, response, exitKind,
                  pending, escaped, started, completed, emptyTerms >>
  /\ ki' = NoKi
  /\ ret' = "None"

\* if not image_urls: return; otherwise entry of the download loop
CheckUrls ==
  /\ pc = "urls_check"
  /\ IF image_urls = <<>>
     THEN /\ emptyTerms' = emptyTerms \cup {fi}
          /\ pc' = AfterTerm
          /\ ClearLocals
     ELSE /\ i' = 0
          /\ downloaded_count' = 0
          /\ attempted' = <<>>
          /\ pc' = DlNext(0, TRUE)
          /\ UNCHANGED << emptyTerms, scroll_i, image_urls, response >>
  /\ UNCHANGED << mode, images_per_food, fi, driver, opens, quits, folders, disk,
                  exitKind, pending, escaped, started, completed >>
  /\ Quiet

\* Head of the download loop and the file-name computation: urlparse may
\* raise, which the loop's handler logs before going to the next URL.
DlName ==
  /\ pc = "dl_name"
  /\ LET url == Slice(image_urls, images_per_food)[i + 1]
     IN  /\ i' = i + 1
         /\ attempted' = Append(attempted, url)
         /\ IF UrlparseRaises(url)
            THEN /\ raised' = [kind |-> "Exception", at |-> pc, food |-> fi]
                 /\ pc' = DlNext(i + 1, FALSE)
            ELSE /\ pc' = "dl_request"
                 /\ raised' = NoExc
  /\ UNCHANGED << mode, images_per_food, fi, driver, opens, quits, folders, disk,
                  scroll_i, image_urls, downloaded_count, exitKind, pending,
                  escaped, started, completed, emptyTerms >>
  /\ response' = NoResponse
  /\ ki' = NoKi
  /\ ret' = "None"

\* requests.get(img_url, headers=headers, timeout=10)
DlRequest ==
  /\ pc = "dl_request"
  /\ \/ /\ \E r \in Responses : response' = r
        /\ pc' = "dl_handle"
        /\ raised' = NoExc
        /\ ret' = "None"
     \/ /\ raised' = [kind |-> "Exception", at |-> pc, food |-> fi]
        /\ ret' = "False"
        /\ pc' = DlNext(i, FALSE)
        /\ response' = NoResponse
  /\ UNCHANGED << mode, images_per_food, fi, driver, opens, quits, folders, disk,
                  scroll_i, image_urls, i, downloaded_count, attempted, exitKind,
                  pending, escaped, started, completed, emptyTerms >>
  /\ ki' = NoKi

\* A file whose write did not finish.
Partial(url) == [content |-> url, full |-> FALSE]

Saved(url) == [content |-> url, full |-> TRUE]

\* The rest of download_image and the counting of scrape_food_images.
DlHandle ==
  /\ pc = "dl_handle"
  /\ LET url == attempted[i]
         name == FileName(fi, i, downloaded_count, url)
     IN  IF RaisesForStatus(response.status)
         THEN /\ raised' = [kind |-> "Exception", at |-> pc, food |-> fi]
              /\ ret' = "False"
              /\ pc' = DlNext(i, FALSE)
              /\ UNCHANGED << disk, downloaded_count >>
         ELSE IF ~IsImage(response.ctype)
         THEN /\ ret' = "False"
              /\ pc' = DlNext(i, FALSE)
              /\ raised' = NoExc
              /\ UNCHANGED << disk, downloaded_count >>
         ELSE \/ /\ disk' = Put(disk, name, Saved(url))
                 /\ ret' = "True"
                 /\ downloaded_count' = downloaded_count + 1
                 /\ pc' = DlNext(i, TRUE)
                 /\ raised' = NoExc
              \/ /\ disk' \in {disk, Put(disk, name, Partial(url))}
                 /\ raised' = [kind |-> "Exception", at |-> pc, food |-> fi]
                 /\ ret' = "False"
                 /\ pc' = DlNext(i, FALSE)
                 /\ UNCHANGED downloaded_count
  /\ UNCHANGED << mode, images_per_food, fi, driver, opens, quits, folders,
                  scroll_i, image_urls, i, attempted, response, exitKind, pending,
                  escaped, started, completed, emptyTerms >>
  /\ ki' = NoKi

\* logger.info(f"Completed {food_name}: ...") and the return
Summary ==
  /\ pc = "summary"
  /\ completed' = completed \cup {fi}
  /\ pc' = AfterTerm
  /\ ClearLocals
  /\ UNCHANGED << mode, images_per_food, fi, driver, opens, quits, folders, disk,
                  exitKind, pending, escaped, started, emptyTerms >>
  /\ Quiet

(***************************************************************************)
(* A KeyboardInterrupt delivered while the try block runs.  Only the bare  *)
(* "except:" of the "Show more results" lookup catches it below the entry  *)
(* point; a write under way leaves the file as far as it got.              *)
(***************************************************************************)
Interrupt ==
  /\ pc \in InTryPcs
  /\ ki' = [at |-> pc, food |-> fi]
  /\ IF Swallows(pc)
     THEN /\ pc' = AfterShowMore
          /\ raised' = [kind |-> "KeyboardInterrupt", at |-> pc, food |-> fi]
          /\ UNCHANGED << exitKind, pending, disk >>
     ELSE /\ Propagate("KeyboardInterrupt")
          /\ IF /\ pc = "dl_handle"
                /\ ~RaisesForStatus(response.status)
                /\ IsImage(response.ctype)
             THEN disk' \in
                    { disk,
                      Put(disk, FileName(fi, i, downloaded_count, attempted[i]),
                          Partial(attempted[i])) }
             ELSE disk' = disk
  /\ UNCHANGED << mode, images_per_food, fi, driver, opens, quits, folders,
                  scroll_i, image_urls, i, downloaded_count, attempted, response,
                  escaped, started, completed, emptyTerms >>
  /\ ret' = "None"

RunNext ==
  \/ scrape_all_foods
  \/ scrape_single_food
  \/ setup_driver
  \/ LoopNext
  \/ Sleep
  \/ Finally
  \/ create_folder
  \/ Navigate
  \/ Scroll
  \/ ShowMore
  \/ WaitImgs
  \/ Extract
  \/ CollectFail
  \/ CheckUrls
  \/ DlName
  \/ DlRequest
  \/ DlHandle
  \/ Summary
  \/ Interrupt

Next == RunNext /\ UNCHANGED fnVars

Spec == Init /\ [][Next]_vars

TypeOK ==
  /\ mode \in {"none", "all", "single"}
  /\ images_per_food \in 0..MaxPer
  /\ fi \in 0..NumFoods
  /\ driver \in {"None", "open", "quit"}
  /\ i \in 0..MaxImgs
  /\ downloaded_count \in 0..MaxImgs
  /\ scroll_i \in 0..scroll_count

(***************************************************************************)
(* The pure functions applied on their own to bounded inputs.              *)
(***************************************************************************)
RunIdle == InitRun /\ images_per_food = 0 /\ disk = EmptyDisk

PathTokens == {"/", ".", "a", "png", "PNG", "gif"}

Queries == { <<>>, <<"?", "x">>, <<"#", "f">> }

ExtInputs ==
  { <<"http", "://", "h">> \o p \o q : p \in SeqsUpTo(PathTokens, MaxPathLen), q \in Queries }

InitExt ==
  /\ RunIdle
  /\ fn_pc = "ext_in"
  /\ fn_url \in ExtInputs
  /\ fn_ext = <<>>
  /\ fn_elems = <<>>
  /\ fn_urls = <<>>

\* The file-extension lines of scrape_food_images applied to fn_url.
ApplyExt ==
  /\ fn_pc = "ext_in"
  /\ fn_ext' = FileExtension(fn_url)
  /\ fn_pc' = "ext_out"
  /\ UNCHANGED << fn_url, fn_elems, fn_urls, runVars >>

SpecExt == InitExt /\ [][ApplyExt]_vars

U_rel == <<"/", "a", ".", "png">>

DedupPool ==
  { Img(U_PNG, <<>>), Img(<<>>, U_png), Img(U_data, U_none), Img(U_PNG, U_png),
    Img(<<>>, <<>>), Img(U_rel, <<>>), Img(<<>>, U_none) }

InitDedup ==
  /\ RunIdle
  /\ fn_pc = "dedup_in"
  /\ fn_elems \in SeqsUpTo(DedupPool, MaxSeqLen)
  /\ fn_urls = <<>>
  /\ fn_url = <<>>
  /\ fn_ext = <<>>

\* The filter loop and the deduplication of get_image_urls applied to fn_elems.
ApplyDedup ==
  /\ fn_pc = "dedup_in"
  /\ fn_urls' = ImageUrlsOf(fn_elems)
  /\ fn_pc' = "dedup_out"
  /\ UNCHANGED << fn_url, fn_ext, fn_elems, runVars >>

SpecDedup == InitDedup /\ [][ApplyDedup]_vars

(***************************************************************************)
(* Properties.                                                             *)
(***************************************************************************)
\* Names under the base folder that belong to term f.
NamesOf(f) == { n \in DOMAIN disk : n[1] = f }

\* Files of term f this run has touched (saved whole or left part-written).
TouchedNames(f) == { n \in NamesOf(f) : disk[n].content # <<>> }

\* Files of term f this run has saved whole.
SavedNames(f) == { n \in TouchedNames(f) : disk[n].full }

SavedIndices(f) == { n[2] : n \in SavedNames(f) }

InDownloadLoop == pc \in DownloadPcs \cup {"summary"}

\* C1: in a run of scrape_all_foods whose browser launch succeeded, the
\* browser is opened once for the whole run, stays open while the term loop
\* runs, and once the run is over driver.quit has been called exactly once,
\* whether the loop ended normally, by an error or by an interrupt.
C1_SessionOpenedOnceClosedOnce ==
  mode = "all" =>
    /\ opens <= 1
    /\ quits <= opens
    /\ (pc \in InTryPcs => opens = 1 /\ quits = 0 /\ driver = "open")
    /\ (pc \in {"done", "raised"} /\ opens = 1 => quits = 1 /\ driver = "quit")

C1_Witness ==
  /\ mode = "all"
  /\ pc = "done"
  /\ exitKind = "KeyboardInterrupt"
  /\ started = 1..NumFoods
  /\ opens = 1
  /\ quits = 1

C4_NothingEscapesTheLoop ==
  escaped # NoExc => escaped.at \notin InTryPcs

\* C5: for a term with a non-empty URL list the download loop takes the first
\* min(len(urls), images_per_food) URLs, each once and in list order; failures
\* do not end the loop early, no URL beyond the bound is taken and no more
\* files than that are written.
C5_AttemptsFirstMinUrls ==
  InDownloadLoop =>
    LET m == Min(Len(image_urls), images_per_food)
    IN  /\ image_urls # <<>>
        /\ Len(attempted) = i
        /\ i <= m
        /\ attempted = SubSeq(image_urls, 1, i)
        /\ \A a, b \in 1..i : a # b => attempted[a] # attempted[b]
        /\ (pc = "summary" => i = m)
        /\ Cardinality(TouchedNames(fi)) <= m

C5_Witness ==
  /\ pc = "summary"
  /\ Len(image_urls) = 2
  /\ images_per_food = 2
  /\ attempted = image_urls
  /\ downloaded_count = 0

\* C6: the extension used in the file name is the URL's path suffix when the
\* suffix matches {.jpg, .jpeg, .png, .webp} case-insensitively, and .jpg when
\* there is no suffix or it is outside the allow-list.
C6_ExtensionMatchedCaseInsensitively ==
  fn_pc = "ext_out" =>
    LET suffix == SplitextExt(UrlPath(fn_url))
    IN  IF Lower(suffix) \in AllowedExtensions
        THEN Lower(fn_ext) = Lower(suffix)
        ELSE fn_ext = DefaultExtension

\* The content-type header names an image, compared case-insensitively.
NamesImage(ct) == \E k \in 1..Len(ct) : LowerTok(ct[k]) = "image"

Rejected(r) == r.status \notin 200..299 \/ ~NamesImage(r.ctype)

Returned(k) ==
  IF mode = "all" THEN IF k < NumFoods THEN "sleep" ELSE "loop" ELSE "finally"

\* C8: when URL collection fails or finds nothing, get_image_urls returns an
\* empty list, scrape_food_images attempts no download, writes no file for
\* the term and raises nothing, and scrape_all_foods goes on to the next term.
C8_EmptyCollectionSkipsTerm ==
  /\ [][ (raised'.kind = "Exception" /\ raised'.at \in CollectPcs) =>
           (image_urls' = <<>> /\ pc' = "urls_check" /\ disk' = disk) ]_vars
  /\ [][ (pc = "urls_check" /\ image_urls = <<>> /\ ki' = NoKi) =>
           /\ pc' = Returned(fi)
           /\ fi \in emptyTerms'
           /\ attempted' = <<>>
           /\ raised' = NoExc
           /\ disk' = disk ]_vars
  /\ [](\A k \in emptyTerms :
          /\ TouchedNames(k) = {}
          /\ escaped = NoExc
          /\ pending = NoExc
          /\ (mode = "all" /\ k < NumFoods) =>
               \/ k + 1 \in started
               \/ fi = k /\ pc \in {"sleep", "loop"}
               \/ fi = k /\ ki.food = k /\ ki.at \in {"sleep", "loop"})

C8_Witness ==
  /\ mode = "all"
  /\ 1 \in emptyTerms
  /\ 1 \in folders
  /\ NamesOf(1) = {}
  /\ 2 \in started
  /\ pc = "navigate"

\* C9: an interrupt delivered during the delay after term k stops the run:
\* the files of terms 1..k stay as they are, no folder is created and nothing
\* is scraped for a later term, and the browser is closed.
C9_InterruptBetweenTerms ==
  /\ [][ ki.at = "sleep" => (disk' = disk /\ folders' = folders /\ started' = started) ]_vars
  /\ [](ki.at = "sleep" =>
          /\ pc \in {"finally", "done"}
          /\ fi = ki.food
          /\ folders \subseteq 1..ki.food
          /\ started \subseteq 1..ki.food
          /\ \A f \in (ki.food + 1)..NumFoods : NamesOf(f) = {}
          /\ escaped = NoExc
          /\ (pc = "done" => quits = 1 /\ driver = "quit"))

C9_Witness ==
  /\ pc = "done"
  /\ ki.at = "sleep"
  /\ ki.food = 1
  /\ SavedNames(1) # {}
  /\ 2 \notin folders
  /\ driver = "quit"

\* Position of the first occurrence of x in s.
FirstPos(s, x) == CHOOSE k \in 1..Len(s) : s[k] = x /\ \A j \in 1..(k - 1) : s[j] # x

\* C10: the list get_image_urls returns holds every URL that passed the filter
\* exactly once, in the order of first occurrence, and deduplicating it again
\* changes nothing.
C10_DedupKeepsFirstSeenOrder ==
  fn_pc = "dedup_out" =>
    LET f == FilterUrls(fn_elems)
        o == fn_urls
    IN  /\ { o[k] : k \in 1..Len(o) } = { f[k] : k \in 1..Len(f) }
        /\ \A a, b \in 1..Len(o) : a # b => o[a] # o[b]
        /\ \A a, b \in 1..Len(o) : a < b => FirstPos(f, o[a]) < FirstPos(f, o[b])
        /\ Dedup(o) = o

C10_Witness ==
  /\ fn_pc = "dedup_out"
  /\ Len(FilterUrls(fn_elems)) = 3
  /\ fn_urls = <<U_png, U_PNG>>

====
